---- MODULE Spec2Model ----
(***************************************************************************)
(* Model of the command-line calculator of src/src/main.rs: the parser     *)
(* parse_input, the evaluator calculate, the driver loop of main, and the  *)
(* direct calls the unit tests make of the two functions.                  *)
(*                                                                         *)
(* Text is a sequence of one-character strings.  An f64 is a record        *)
(*   [k |-> "fin", neg, n, d]  the value (-1)^neg * n / d, in lowest terms *)
(*   [k |-> "inf", neg]        an infinity                                 *)
(*   [k |-> "nan"]             a NaN                                       *)
(* A finite record stands for the f64 nearest to the rational; the operand *)
(* tokens of the model are all exactly representable, so one operation on  *)
(* them is the correctly rounded exact result, which the rational denotes. *)
(* Zero keeps its sign, as in IEEE-754.                                    *)
(***************************************************************************)
EXTENDS Integers, Sequences, FiniteSets, TLC

VARIABLES pc, input, stdin, line, out, prev, status, parseCall, calcCall

vars == <<pc, input, stdin, line, out, prev, status, parseCall, calcCall>>

\* ------------------------------------------------------------------ bounds

\* Most tokens on a line of the token-count family.
MaxTokens == 4
\* Longest run of whitespace before the first and after the last token.
MaxPad == 1
\* Longest run of whitespace between two tokens.
MaxSep == 2

\* ------------------------------------------------------- Result<T, E> values

Ok(v) == [ok |-> TRUE, val |-> v]

Err(e) == [ok |-> FALSE, err |-> e]

\* ------------------------------------------------------------- characters

\* char::is_whitespace, on the characters of the model.
IsWhitespace(c) == c \in {" ", "\t", "\n", "\r"}

\* char::to_lowercase, on the characters of the model.
LowerChar(c) ==
    CASE c = "Q" -> "q"
      [] c = "E" -> "e"
      [] c = "N" -> "n"
      [] c = "I" -> "i"
      [] c = "F" -> "f"
      [] c = "A" -> "a"
      [] OTHER -> c

\* str::to_lowercase.
to_lowercase(s) == [i \in 1..Len(s) |-> LowerChar(s[i])]

RECURSIVE TrimStart(_)
TrimStart(s) ==
    IF s # <<>> /\ IsWhitespace(Head(s)) THEN TrimStart(Tail(s)) ELSE s

RECURSIVE TrimEnd(_)
TrimEnd(s) ==
    IF s # <<>> /\ IsWhitespace(s[Len(s)])
    THEN TrimEnd(SubSeq(s, 1, Len(s) - 1))
    ELSE s

\* str::trim.
trim(s) == TrimEnd(TrimStart(s))

RECURSIVE SplitWs(_, _, _)
SplitWs(s, cur, acc) ==
    IF s = <<>>
    THEN IF cur = <<>> THEN acc ELSE Append(acc, cur)
    ELSE IF IsWhitespace(Head(s))
         THEN SplitWs(Tail(s), <<>>, IF cur = <<>> THEN acc ELSE Append(acc, cur))
         ELSE SplitWs(Tail(s), Append(cur, Head(s)), acc)

\* str::split_whitespace().collect(): the maximal runs of non-whitespace.
split_whitespace(s) == SplitWs(s, <<>>, <<>>)

\* ------------------------------------------------------------ f64 values

Abs(i) == IF i < 0 THEN -i ELSE i

RECURSIVE Gcd(_, _)
Gcd(a, b) == IF b = 0 THEN a ELSE Gcd(b, a % b)

RECURSIVE Pow10(_)
Pow10(k) == IF k = 0 THEN 1 ELSE 10 * Pow10(k - 1)

NaN == [k |-> "nan"]

Inf(neg) == [k |-> "inf", neg |-> neg]

\* The finite value (-1)^neg * n / d, reduced (n >= 0, d > 0).
Fin(neg, n, d) ==
    LET g == Gcd(n, d)
    IN  [k |-> "fin", neg |-> neg, n |-> n \div g, d |-> d \div g]

\* The finite value num / d of a signed numerator; an exact zero takes the
\* sign zneg.
FinSigned(num, d, zneg) ==
    IF num = 0 THEN Fin(zneg, 0, 1) ELSE Fin(num < 0, Abs(num), d)

\* The signed numerator of a finite value.
Num(x) == IF x.neg THEN -x.n ELSE x.n

IsZero(x) == x.k = "fin" /\ x.n = 0

\* f64 ==: a NaN equals nothing, and the two zeros are equal.
FEq(x, y) ==
    /\ x.k # "nan"
    /\ y.k # "nan"
    /\ x.k = y.k
    /\ IF x.k = "inf" THEN x.neg = y.neg
       ELSE (x.n = 0 /\ y.n = 0) \/ x = y

FNeg(x) == IF x.k = "nan" THEN x ELSE [x EXCEPT !.neg = ~x.neg]

\* f64 +.
FAdd(x, y) ==
    IF x.k = "nan" \/ y.k = "nan" THEN NaN
    ELSE IF x.k = "inf"
         THEN IF y.k = "inf" /\ y.neg # x.neg THEN NaN ELSE x
    ELSE IF y.k = "inf" THEN y
    ELSE FinSigned(Num(x) * y.d + Num(y) * x.d, x.d * y.d, x.neg /\ y.neg)

\* f64 -.
FSub(x, y) == FAdd(x, FNeg(y))

\* f64 *.
FMul(x, y) ==
    IF x.k = "nan" \/ y.k = "nan" THEN NaN
    ELSE IF x.k = "inf" \/ y.k = "inf"
         THEN IF IsZero(x) \/ IsZero(y) THEN NaN ELSE Inf(x.neg # y.neg)
    ELSE Fin(x.neg # y.neg, x.n * y.n, x.d * y.d)

\* f64 /.
FDiv(x, y) ==
    IF x.k = "nan" \/ y.k = "nan" THEN NaN
    ELSE IF x.k = "inf"
         THEN IF y.k = "inf" THEN NaN ELSE Inf(x.neg # y.neg)
    ELSE IF y.k = "inf" THEN Fin(x.neg # y.neg, 0, 1)
    ELSE IF y.n = 0
         THEN IF x.n = 0 THEN NaN ELSE Inf(x.neg # y.neg)
    ELSE Fin(x.neg # y.neg, x.n * y.d, x.d * y.n)

\* The f64 constant 0.0.
Zero == Fin(FALSE, 0, 1)

\* ------------------------------------------------- str::parse::<f64>()

DigitChars == {"0", "1", "2", "3", "4", "5", "6", "7", "8", "9"}

DigitVal(c) ==
    CASE c = "0" -> 0 [] c = "1" -> 1 [] c = "2" -> 2 [] c = "3" -> 3
      [] c = "4" -> 4 [] c = "5" -> 5 [] c = "6" -> 6 [] c = "7" -> 7
      [] c = "8" -> 8 [] c = "9" -> 9

\* The leading digits of s, accumulated onto n: their value, their count and
\* what follows them.
RECURSIVE TakeDigits(_, _, _)
TakeDigits(s, n, cnt) ==
    IF s # <<>> /\ Head(s) \in DigitChars
    THEN TakeDigits(Tail(s), 10 * n + DigitVal(Head(s)), cnt + 1)
    ELSE [val |-> n, cnt |-> cnt, rest |-> s]

\* The exponent after 'e': an optional sign and at least one digit.
ParseScientific(s) ==
    LET signed == s # <<>> /\ Head(s) \in {"+", "-"}
        ds == TakeDigits(IF signed THEN Tail(s) ELSE s, 0, 0)
    IN  IF ds.cnt = 0 THEN [ok |-> FALSE]
        ELSE [ok |-> TRUE,
              val |-> IF signed /\ Head(s) = "-" THEN -ds.val ELSE ds.val,
              rest |-> ds.rest]

\* Digit* ['.' Digit*] [('e'|'E') Sign? Digit+] with at least one digit in
\* the mantissa, the whole of s: the mantissa and the decimal exponent.
ParseNumber(s) ==
    LET ip == TakeDigits(s, 0, 0)
        dot == ip.rest # <<>> /\ Head(ip.rest) = "."
        fp == IF dot THEN TakeDigits(Tail(ip.rest), ip.val, 0)
              ELSE [val |-> ip.val, cnt |-> 0, rest |-> ip.rest]
        hasExp == fp.rest # <<>> /\ Head(fp.rest) \in {"e", "E"}
        ex == IF hasExp THEN ParseScientific(Tail(fp.rest))
              ELSE [ok |-> TRUE, val |-> 0, rest |-> fp.rest]
    IN  IF ip.cnt + fp.cnt = 0 \/ ~ex.ok THEN [ok |-> FALSE]
        ELSE IF ex.rest # <<>> THEN [ok |-> FALSE]
        ELSE [ok |-> TRUE, mant |-> fp.val, exp |-> ex.val - fp.cnt]

\* 'nan', 'inf' and 'infinity' in any case.
ParseInfNan(s, negative) ==
    LET l == to_lowercase(s)
    IN  IF l = <<"n", "a", "n">> THEN [ok |-> TRUE, val |-> NaN]
        ELSE IF l = <<"i", "n", "f">>
                \/ l = <<"i", "n", "f", "i", "n", "i", "t", "y">>
             THEN [ok |-> TRUE, val |-> Inf(negative)]
        ELSE [ok |-> FALSE]

\* Display of ParseFloatError for a non-empty string that is no float.
InvalidFloatLiteral == "invalid float literal"

\* Display of ParseFloatError for the empty string.
EmptyFloatLiteral == "cannot parse float from empty string"

\* A slip: a conversion that, like C's atof, gives 0 for what is no number.
ParseF64Lenient(tok) == Ok(Zero)

\* <f64 as FromStr>::from_str: Sign? ('inf' | 'infinity' | 'nan' | Number).
ParseF64(tok) ==
    IF tok = <<>> THEN Err(EmptyFloatLiteral)
    ELSE LET negative == Head(tok) = "-"
             s == IF Head(tok) \in {"-", "+"} THEN Tail(tok) ELSE tok
             num == ParseNumber(s)
             special == ParseInfNan(s, negative)
         IN  IF s = <<>> THEN Err(InvalidFloatLiteral)
             ELSE IF num.ok
                  THEN Ok(IF num.exp >= 0
                          THEN Fin(negative, num.mant * Pow10(num.exp), 1)
                          ELSE Fin(negative, num.mant, Pow10(-num.exp)))
             ELSE IF special.ok THEN Ok(special.val)
             ELSE Err(InvalidFloatLiteral)

\* ------------------------------------------------------------ parse_input

InvalidInput == "Invalid input"

InvalidOperatorParse == "Invalid operator. Use +, -, *, /"

\* The operators parse_input accepts.
Operators == {<<"+">>, <<"-">>, <<"*">>, <<"/">>}

\* A slip: a line of more than 3 parts passes, its first three are used.
WrongArityAtLeast(values) == Len(values) < 3

\* values.len() != 3
WrongArity(values) == Len(values) # 3

\* A slip: the operator is not validated.
IsAllowedOperatorAny(operator) == TRUE

\* ["+", "-", "*", "/"].contains(&operator)
IsAllowedOperator(operator) == operator \in Operators

\* A slip: the two numbers returned in the wrong order.
ParsedTripleSwapped(num1, num2, operator) ==
    [num1 |-> num2, num2 |-> num1, operator |-> operator]

\* The tuple (num1, num2, operator) parse_input returns.
ParsedTriple(num1, num2, operator) ==
    [num1 |-> num1, num2 |-> num2, operator |-> operator]

\* A slip: the operator is validated before the numbers are converted.
parse_input_OperatorFirst(s) ==
    LET values == split_whitespace(s)
    IN  IF WrongArity(values) THEN Err(InvalidInput)
        ELSE LET num1 == ParseF64(values[1])
                 num2 == ParseF64(values[3])
                 operator == values[2]
             IN  IF ~IsAllowedOperator(operator) THEN Err(InvalidOperatorParse)
                 ELSE IF ~num1.ok THEN Err(num1.err)
                 ELSE IF ~num2.ok THEN Err(num2.err)
                 ELSE Ok(ParsedTriple(num1.val, num2.val, operator))

\* parse_input: the token count, then the first number, then the second,
\* then the operator; the first failure is returned (the ? operator).
parse_input(s) ==
    LET values == split_whitespace(s)
    IN  IF WrongArity(values) THEN Err(InvalidInput)
        ELSE LET num1 == ParseF64(values[1])
                 num2 == ParseF64(values[3])
                 operator == values[2]
             IN  IF ~num1.ok THEN Err(num1.err)
                 ELSE IF ~num2.ok THEN Err(num2.err)
                 ELSE IF ~IsAllowedOperator(operator)
                      THEN Err(InvalidOperatorParse)
                 ELSE Ok(ParsedTriple(num1.val, num2.val, operator))

\* -------------------------------------------------------------- calculate

DivideByZero == "Cannot divide by zero"

InvalidOperatorCalc == "Invalid operator"

\* A slip: the division arm without its zero test.
IsDivisorZeroNever(num2) == FALSE

\* The zero test of the division arm: num2 == 0.0.
IsDivisorZero(num2) == FEq(num2, Zero)

\* calculate: the match on the operator.
calculate(num1, num2, operator) ==
    CASE operator = <<"+">> -> Ok(FAdd(num1, num2))
      [] operator = <<"-">> -> Ok(FSub(num1, num2))
      [] operator = <<"*">> -> Ok(FMul(num1, num2))
      [] operator = <<"/">> -> IF IsDivisorZero(num2) THEN Err(DivideByZero)
                               ELSE Ok(FDiv(num1, num2))
      [] OTHER -> Err(InvalidOperatorCalc)

\* ----------------------------------------------------------------- inputs

\* Tokens that are floats: decimal, signed, fractional, scientific, the
\* negative zero and the special values.
NumberTokens ==
    { <<"5">>, <<"0">>, <<"-", "3">>, <<"2", ".", "5">>, <<"-", "0">>,
      <<"1", "E", "1">>, <<"i", "n", "f">>, <<"N", "a", "N">> }

\* Tokens that are no floats.
NonNumberTokens ==
    { <<"a", "b", "c">>, <<"-">>, <<"1", "e">>, <<".">>, <<"q">> }

OperandTokens == NumberTokens \cup NonNumberTokens

\* Tokens in the operator's place: the four operators and others.
OperatorTokens ==
    Operators \cup { <<"%">>, <<"+", "+">>, <<"5">>, <<"a", "b", "c">> }

\* The lines "<t1> <t2> <t3>".
TripleLines ==
    { t1 \o <<" ">> \o t2 \o <<" ">> \o t3 :
        t1 \in OperandTokens, t2 \in OperatorTokens, t3 \in OperandTokens }

\* The runs of at least lo and at most hi characters of cs.
Runs(cs, lo, hi) == UNION { [1..k -> cs] : k \in lo..hi }

Pads == Runs({" "}, 0, MaxPad)

Seps == Runs({" ", "\t"}, 1, MaxSep)

RECURSIVE Join(_, _)
Join(toks, sep) ==
    IF toks = <<>> THEN <<>>
    ELSE IF Len(toks) = 1 THEN toks[1]
    ELSE toks[1] \o sep \o Join(Tail(toks), sep)

\* The lines of 0 to MaxTokens tokens, in any amount of whitespace.
CountLines ==
    { lead \o Join(toks, sep) \o trail :
        lead \in Pads, trail \in Pads, sep \in Seps,
        toks \in Runs({<<"5">>, <<"+">>}, 0, MaxTokens) }

\* The lines about quitting: q and Q in whitespace, and near misses.
QuitLines ==
    { lead \o t \o trail :
        lead \in Pads, trail \in Pads,
        t \in { <<"q">>, <<"Q">>, <<"q", "q">>, <<"q", " ", "q">>, <<"q", "u", "i", "t">> } }

Lines == TripleLines \cup CountLines \cup QuitLines

\* The f64 values the tests pass to calculate.
Values == { ParseF64(t).val : t \in NumberTokens }

\* ------------------------------------------------------------------ state

NoCall == [called |-> FALSE]

NoLine == [kind |-> "none"]

PromptMsg ==
    [stream |-> "stdout", kind |-> "prompt",
     text |-> "Please enter your calculation (e.g. 5 + 5) or 'q' to quit:"]

Farewell == [stream |-> "stdout", kind |-> "farewell", text |-> "Thanks for using."]

\* println!("{} {} {} = {}", num1, operator, num2, result)
ResultMsg(num1, operator, num2, result) ==
    [stream |-> "stdout", kind |-> "result", num1 |-> num1,
     operator |-> operator, num2 |-> num2, result |-> result]

\* eprintln!("Error: {}", e)
ErrorMsg(e) == [stream |-> "stderr", kind |-> "error", prefix |-> "Error: ", text |-> e]

\* What the finished iteration printed last: "none" before the first.
Outcome(o) == IF o = <<>> THEN "none" ELSE o[Len(o)].kind

Init ==
    /\ pc \in {"prompt", "test"}
    /\ input = <<>>
    /\ stdin = "open"
    /\ line = NoLine
    /\ out = <<>>
    /\ prev = "none"
    /\ status = "running"
    /\ parseCall = NoCall
    /\ calcCall = NoCall

\* The record of a call of parse_input.
ParseCall(by, s) ==
    [called |-> TRUE, by |-> by, input |-> s, result |-> parse_input(s)]

\* The record of a call of calculate.
CalcCall(by, num1, num2, operator) ==
    [called |-> TRUE, by |-> by, num1 |-> num1, num2 |-> num2,
     operator |-> operator, result |-> calculate(num1, num2, operator)]

\* A slip: the buffer declared outside the loop, never cleared.
NewInputKept(old) == old

\* let mut input = String::new(): the buffer of the iteration.
NewInput(old) == <<>>

\* main, the top of the loop: the prompt and a fresh buffer.
Prompt ==
    /\ pc = "prompt"
    /\ out' = <<PromptMsg>>
    /\ input' = NewInput(input)
    /\ prev' = Outcome(out)
    /\ line' = NoLine
    /\ parseCall' = NoCall
    /\ calcCall' = NoCall
    /\ pc' = "read"
    /\ UNCHANGED <<stdin, status>>

\* read_line appends a line of ls and its newline to the buffer; a last line
\* may end with the stream instead of a newline.
ReadLineFrom(ls) ==
    /\ pc = "read"
    /\ stdin = "open"
    /\ \E l \in ls, newline \in BOOLEAN :
          /\ newline \/ l # <<>>
          /\ line' = [kind |-> "line", text |-> IF newline THEN l \o <<"\n">> ELSE l]
          /\ input' = input \o line'.text
          /\ stdin' = IF newline THEN "open" ELSE "eof"
    /\ pc' = "check"
    /\ UNCHANGED <<out, prev, status, parseCall, calcCall>>

\* std::io::stdin().read_line(&mut input) delivers a line.
ReadLine == ReadLineFrom(Lines)

\* read_line at the end of the stream: Ok(0), the buffer untouched.
ReadEof ==
    /\ pc = "read"
    /\ stdin' = "eof"
    /\ line' = [kind |-> "eof", text |-> <<>>]
    /\ pc' = "check"
    /\ UNCHANGED <<input, out, prev, status, parseCall, calcCall>>

\* read_line fails: the ? operator returns the error from main.
ReadFail ==
    /\ pc = "read"
    /\ stdin' = "failed"
    /\ line' = [kind |-> "error", text |-> <<>>]
    /\ pc' = "exit"
    /\ status' = "failure"
    /\ UNCHANGED <<input, out, prev, parseCall, calcCall>>

\* A slip: the line compared with its newline still on it.
IsQuitUntrimmed(s) == to_lowercase(s) = <<"q">>

\* input.trim().to_lowercase() == "q"
IsQuit(s) == to_lowercase(trim(s)) = <<"q">>

\* main, the quit test: the farewell and the break, or on to the evaluation.
CheckQuit ==
    /\ pc = "check"
    /\ IF IsQuit(input)
       THEN /\ out' = Append(out, Farewell)
            /\ pc' = "exit"
            /\ status' = "success"
       ELSE /\ pc' = "eval"
            /\ UNCHANGED <<out, status>>
    /\ UNCHANGED <<input, stdin, line, prev, parseCall, calcCall>>

\* main, parse_input(&input).and_then(calculate and print), and the match
\* that prints an error.
Eval ==
    /\ pc = "eval"
    /\ \E p \in {ParseCall("main", input)} :
          /\ parseCall' = p
          /\ IF ~p.result.ok
             THEN /\ calcCall' = NoCall
                  /\ out' = Append(out, ErrorMsg(p.result.err))
             ELSE \E c \in {CalcCall("main", p.result.val.num1,
                                     p.result.val.num2, p.result.val.operator)} :
                     /\ calcCall' = c
                     /\ out' = Append(out,
                           IF c.result.ok
                           THEN ResultMsg(c.num1, c.operator, c.num2, c.result.val)
                           ELSE ErrorMsg(c.result.err))
    /\ pc' = "prompt"
    /\ UNCHANGED <<input, stdin, line, prev, status>>

\* A unit test of parse_input: one direct call on a string.
TestParse ==
    /\ pc = "test"
    /\ \E s \in Lines : parseCall' = ParseCall("test", s)
    /\ pc' = "tested"
    /\ UNCHANGED <<input, stdin, line, out, prev, status, calcCall>>

\* A unit test of calculate: one direct call on two values and an operator.
TestCalculate ==
    /\ pc = "test"
    /\ \E num1 \in Values, num2 \in Values, operator \in OperatorTokens :
          calcCall' = CalcCall("test", num1, num2, operator)
    /\ pc' = "tested"
    /\ UNCHANGED <<input, stdin, line, out, prev, status, parseCall>>

Next ==
    \/ Prompt
    \/ ReadLine
    \/ ReadEof
    \/ ReadFail
    \/ CheckQuit
    \/ Eval
    \/ TestParse
    \/ TestCalculate

Spec == Init /\ [][Next]_vars

\* The loop of main alone, on a few lines: a sum, a division by zero, a bad
\* number, a bad operator, a line of two tokens, the empty line and the quit
\* lines.
LoopLines ==
    { <<"5", " ", "+", " ", "5">>, <<"5", " ", "/", " ", "0">>,
      <<"a", "b", "c", " ", "+", " ", "5">>, <<"5", " ", "%", " ", "5">>,
      <<"5", " ", "+", " ">>, <<>>, <<"q">>, <<" ", "Q">> }

ReadLoopLine == ReadLineFrom(LoopLines)

\* A read when the stream has ended: it returns at once.
ReadAtEof == stdin = "eof" /\ ReadEof

LoopInit == Init /\ pc = "prompt"

LoopNext ==
    \/ Prompt
    \/ ReadLoopLine
    \/ ReadEof
    \/ ReadFail
    \/ CheckQuit
    \/ Eval

\* main is sequential code that waits nowhere but in read_line, and at the
\* end of the stream read_line returns at once: each of these steps, once it
\* can be taken, is taken.
FairSpec ==
    /\ LoopInit
    /\ [][LoopNext]_vars
    /\ WF_vars(Prompt)
    /\ WF_vars(ReadAtEof)
    /\ WF_vars(CheckQuit)
    /\ WF_vars(Eval)

\* ----------------------------------------------- reference definitions

\* The four operator symbols.
FourSymbols == {<<"+">>, <<"-">>, <<"*">>, <<"/">>}

\* The number of tokens of s: the places where a run of non-whitespace
\* starts.
TokenCount(s) ==
    Cardinality({ i \in 1..Len(s) :
                    /\ s[i] \notin {" ", "\t", "\n", "\r"}
                    /\ (i = 1 \/ s[i - 1] \in {" ", "\t", "\n", "\r"}) })

\* The tokens of the string parse_input was called on.
ParsedTokens == split_whitespace(parseCall.input)

\* parse_input was called on a string of three tokens.
ParsedThree == parseCall.called /\ TokenCount(parseCall.input) = 3

\* The finite number tokens and the fractions they denote.
FiniteTokens ==
    { <<"5">>, <<"0">>, <<"-", "3">>, <<"2", ".", "5">>, <<"-", "0">>,
      <<"1", "E", "1">> }

RefNum(t) ==
    CASE t = <<"5">> -> 5
      [] t = <<"0">> -> 0
      [] t = <<"-", "3">> -> -3
      [] t = <<"2", ".", "5">> -> 5
      [] t = <<"-", "0">> -> 0
      [] t = <<"1", "E", "1">> -> 10

RefDen(t) == IF t = <<"2", ".", "5">> THEN 2 ELSE 1

\* r is the finite value of  n1/d1 op n2/d2,  by cross-multiplication.
RefResult(op, n1, d1, n2, d2, r) ==
    /\ r.k = "fin"
    /\ r.d > 0
    /\ CASE op = <<"+">> -> Num(r) * d1 * d2 = (n1 * d2 + n2 * d1) * r.d
         [] op = <<"-">> -> Num(r) * d1 * d2 = (n1 * d2 - n2 * d1) * r.d
         [] op = <<"*">> -> Num(r) * d1 * d2 = n1 * n2 * r.d
         [] op = <<"/">> -> Num(r) * d1 * n2 = n1 * d2 * r.d

\* The only character of s that is no whitespace is a q or a Q.
IsQuitLine(s) ==
    LET solid == { i \in 1..Len(s) : s[i] \notin {" ", "\t", "\n", "\r"} }
    IN  /\ Cardinality(solid) = 1
        /\ \A i \in solid : s[i] \in {"q", "Q"}

\* ----------------------------------------------------------------- claims

\* C1: parse_input fails with "Invalid input" if and only if its string does
\* not hold exactly 3 whitespace-separated tokens, whatever the tokens are
\* and however much whitespace surrounds them.
C1_ArityErrorIffNotThreeTokens ==
    parseCall.called =>
        ( (~parseCall.result.ok /\ parseCall.result.err = "Invalid input")
          <=> TokenCount(parseCall.input) # 3 )

\* C1 witness: a padded line of four tokens was rejected for its arity.
C1_Witness ==
    /\ parseCall.called
    /\ TokenCount(parseCall.input) = 4
    /\ Len(parseCall.input) > 8
    /\ ~parseCall.result.ok
    /\ parseCall.result.err = "Invalid input"

\* C2: a successful parse carries one of the four operators, and a 3-token
\* line whose middle token is none of them is an error.
C2_ParsedOperatorIsOneOfFour ==
    /\ (parseCall.called /\ parseCall.result.ok)
          => parseCall.result.val.operator \in FourSymbols
    /\ (ParsedThree /\ ParsedTokens[2] \notin FourSymbols)
          => ~parseCall.result.ok

\* C2 witness: "<number> % <number>" was rejected for its operator.
C2_Witness ==
    /\ ParsedThree
    /\ ParsedTokens[1] \in FiniteTokens
    /\ ParsedTokens[3] \in FiniteTokens
    /\ ParsedTokens[2] = <<"%">>
    /\ ~parseCall.result.ok
    /\ parseCall.result.err = "Invalid operator. Use +, -, *, /"

\* C3: calculate(a, b, "/") is the error "Cannot divide by zero" exactly when
\* b is a zero, for every a; otherwise it is the quotient; a zero b is never
\* an error for +, - or *.
C3_DivisionByZeroExactlyWhenZero ==
    calcCall.called =>
        LET a == calcCall.num1
            b == calcCall.num2
            r == calcCall.result
            bZero == b.k = "fin" /\ b.n = 0
        IN  /\ calcCall.operator = <<"/">> =>
                 /\ (~r.ok /\ r.err = "Cannot divide by zero") <=> bZero
                 /\ ~bZero => /\ r.ok
                              /\ r.val = FDiv(a, b)
                              /\ (a.k = "fin" /\ b.k = "fin") =>
                                    RefResult(<<"/">>, Num(a), a.d, Num(b), b.d, r.val)
            /\ (calcCall.operator \in {<<"+">>, <<"-">>, <<"*">>} /\ bZero) => r.ok

\* C3 witness: 0 / -0 was called and gave the division-by-zero error.
C3_Witness ==
    /\ calcCall.called
    /\ calcCall.operator = <<"/">>
    /\ calcCall.num1 = [k |-> "fin", neg |-> FALSE, n |-> 0, d |-> 1]
    /\ calcCall.num2 = [k |-> "fin", neg |-> TRUE, n |-> 0, d |-> 1]
    /\ ~calcCall.result.ok
    /\ calcCall.result.err = "Cannot divide by zero"

\* The line the loop evaluated is "<n1> <op> <n2>" with finite numbers, one of
\* the four operators and, for a division, a second number that is not zero.
WellFormedLine ==
    /\ parseCall.called
    /\ parseCall.by = "main"
    /\ TokenCount(parseCall.input) = 3
    /\ ParsedTokens[1] \in FiniteTokens
    /\ ParsedTokens[3] \in FiniteTokens
    /\ ParsedTokens[2] \in FourSymbols
    /\ ~(ParsedTokens[2] = <<"/">> /\ RefNum(ParsedTokens[3]) = 0)

\* C4: on a well-formed line, parse_input and then calculate succeed and the
\* result printed is op applied to n1 on the left and n2 on the right.
C4_ParseThenCalculateIsReference ==
    WellFormedLine =>
        LET t == ParsedTokens
        IN  /\ parseCall.result.ok
            /\ calcCall.called
            /\ calcCall.result.ok
            /\ RefResult(t[2], RefNum(t[1]), RefDen(t[1]),
                         RefNum(t[3]), RefDen(t[3]), calcCall.result.val)
            /\ out[Len(out)].kind = "result"
            /\ out[Len(out)].result = calcCall.result.val
            /\ out[Len(out)].operator = t[2]

\* C4 witness: the loop evaluated "-3 / 2.5" and printed -6/5.
C4_Witness ==
    /\ WellFormedLine
    /\ ParsedTokens = << <<"-", "3">>, <<"/">>, <<"2", ".", "5">> >>
    /\ out[Len(out)].kind = "result"
    /\ out[Len(out)].result = [k |-> "fin", neg |-> TRUE, n |-> 6, d |-> 5]

\* The first or the third of three tokens is no number.
OperandNotANumber ==
    /\ ParsedThree
    /\ (ParsedTokens[1] \notin NumberTokens \/ ParsedTokens[3] \notin NumberTokens)

\* C5, as stated: the description of the not-a-number error names the
\* offending token, so that another offending first token gives another
\* description.
C5_DescriptionNamesToken ==
    (ParsedThree /\ ParsedTokens[1] \notin NumberTokens) =>
        \A t \in NonNumberTokens \ {ParsedTokens[1]} :
            LET other == parse_input(t \o <<" ">> \o ParsedTokens[2]
                                       \o <<" ">> \o ParsedTokens[3])
            IN  /\ ~parseCall.result.ok
                /\ ~other.ok
                /\ other.err # parseCall.result.err

\* C5, amended: when the first or third of three tokens is no number,
\* parse_input fails with the description "invalid float literal", the same
\* for every offending token and for either place.
C5_DescriptionIsFixed ==
    OperandNotANumber =>
        /\ ~parseCall.result.ok
        /\ parseCall.result.err = "invalid float literal"

\* C5 witness: "5 + abc" was rejected, its third token at fault.
C5_Witness ==
    /\ OperandNotANumber
    /\ ParsedTokens = << <<"5">>, <<"+">>, <<"a", "b", "c">> >>
    /\ ~parseCall.result.ok
    /\ parseCall.result.err = "invalid float literal"

\* What a step of the loop does at and after the quit test.
C6_Step ==
    /\ pc # "exit"
    /\ pc = "check" =>
          IF IsQuitLine(line.text)
          THEN /\ pc' = "exit"
               /\ status' = "success"
               /\ out' = <<PromptMsg, Farewell>>
               /\ ~parseCall'.called
               /\ ~calcCall'.called
          ELSE /\ pc' = "eval"
               /\ status' = "running"
               /\ out' = out
    /\ status' = "success" => (pc = "check" /\ IsQuitLine(line.text))

\* C6: a line that is q or Q in whitespace ends the loop with success: the
\* farewell is printed, the line reaches neither parse_input nor calculate,
\* and no step follows the exit; every other line leaves the loop running.
C6_QuitEndsLoop == [][C6_Step]_vars

\* C6 witness: the loop has ended with success on the line " Q \n".
C6_Witness ==
    /\ pc = "exit"
    /\ status = "success"
    /\ line.kind = "line"
    /\ line.text = <<" ", "Q", " ", "\n">>
    /\ out = <<PromptMsg, Farewell>>

\* What the loop prints for a line evaluated on its own.
ExpectedOutput(s) ==
    LET p == parse_input(s)
        c == calculate(p.val.num1, p.val.num2, p.val.operator)
    IN  IF ~p.ok THEN ErrorMsg(p.err)
        ELSE IF ~c.ok THEN ErrorMsg(c.err)
        ELSE ResultMsg(p.val.num1, p.val.operator, p.val.num2, c.val)

\* C7: the buffer of an iteration holds the line just read and nothing of an
\* earlier one; an iteration that was evaluated printed, after its prompt,
\* exactly one message, the one its line gives on its own: for a failure of
\* parse_input or calculate one "Error: ..." on stderr and no result; and
\* the loop is then back at its prompt, still running.
C7_FailureIsLocal ==
    /\ (pc \in {"check", "eval"} /\ line.kind = "line") => input = line.text
    /\ (pc = "prompt" /\ line.kind # "none") =>
          /\ status = "running"
          /\ Len(out) = 2
          /\ out[1] = PromptMsg
          /\ out[2] = ExpectedOutput(line.text)
          /\ out[2].kind \in {"result", "error"}
          /\ out[2].kind = "error" =>
                /\ out[2].stream = "stderr"
                /\ out[2].prefix = "Error: "
                /\ ~(calcCall.called /\ calcCall.result.ok)
          /\ (~parseCall.result.ok \/ ~calcCall.result.ok) => out[2].kind = "error"

\* C7 witness: the iteration before failed, and this one printed a result.
C7_Witness ==
    /\ pc = "prompt"
    /\ prev = "error"
    /\ line.kind = "line"
    /\ Len(out) = 2
    /\ out[2].kind = "result"

\* C8, as stated: once the input stream can deliver no further line (its end,
\* or a failed read), the loop eventually stops.
C8_NoInputTerminates == (stdin \in {"eof", "failed"}) ~> (pc = "exit")

\* C9: the loop calls calculate only with one of the four operators, so the
\* only error of calculate it prints is the division by zero, never
\* "Invalid operator"; called with any other operator, calculate returns
\* "Invalid operator" whatever the operands.
C9_UnsupportedOperatorUnreachable ==
    /\ (calcCall.called /\ calcCall.by = "main") =>
          /\ calcCall.operator \in FourSymbols
          /\ ~calcCall.result.ok => calcCall.result.err = "Cannot divide by zero"
    /\ \A i \in 1..Len(out) :
          out[i].kind = "error" => out[i].text # "Invalid operator"
    /\ (calcCall.called /\ calcCall.operator \notin FourSymbols) =>
          /\ ~calcCall.result.ok
          /\ calcCall.result.err = "Invalid operator"

\* C9 witness: the loop called calculate, which failed, and printed the
\* division by zero.
C9_Witness ==
    /\ calcCall.called
    /\ calcCall.by = "main"
    /\ ~calcCall.result.ok
    /\ out[Len(out)] = ErrorMsg("Cannot divide by zero")

\* C10: parse_input reports the first check that fails, in the order token
\* count, numbers, operator: a non-numeric operand gives the conversion error
\* whatever the operator is, and the operator error needs both operands
\* numeric.
C10_ChecksInOrder ==
    parseCall.called =>
        LET r == parseCall.result
            t == ParsedTokens
        IN  IF TokenCount(parseCall.input) # 3
            THEN ~r.ok /\ r.err = "Invalid input"
            ELSE IF t[1] \notin NumberTokens \/ t[3] \notin NumberTokens
                 THEN ~r.ok /\ r.err = "invalid float literal"
            ELSE IF t[2] \notin FourSymbols
                 THEN ~r.ok /\ r.err = "Invalid operator. Use +, -, *, /"
            ELSE r.ok

\* C10 witness: "abc % 5" was rejected for its number, not its operator.
C10_Witness ==
    /\ parseCall.called
    /\ ParsedTokens = << <<"a", "b", "c">>, <<"%">>, <<"5">> >>
    /\ ~parseCall.result.ok
    /\ parseCall.result.err = "invalid float literal"

====
